---- MODULE Spec2Model ----
(***************************************************************************)
(* Model of final_project.py: the three fetchers, the forecast, the DCF    *)
(* valuation and the Analyze run of main().                                *)
(*                                                                         *)
(* Python floats are modelled as exact rationals n/d.  The valuation of    *)
(* main() needs (1.07)^5 = 107^5 / 100^5, which does not fit a machine     *)
(* integer of the model checker, so numerators and denominators are        *)
(* natural numbers of arbitrary size: little-endian sequences of limbs in  *)
(* 0 .. Base-1, the empty sequence being zero.  Rounding errors of floats  *)
(* are not modelled.                                                       *)
(*                                                                         *)
(* The ticker only selects the URL and the remote API answers what it      *)
(* likes, so a response is a choice among the decoded JSON bodies below.   *)
(* The number formats of st.write (",.2f") and the rendering of the chart  *)
(* are not modelled: shown records the widget, its label and the value.    *)
(***************************************************************************)
EXTENDS Integers, Sequences, FiniteSets, TLC

Base == 10^4

(* ---------------- natural numbers of arbitrary size -------------------- *)

RECURSIVE NTrim(_)
NTrim(a) ==
    IF a = <<>> THEN <<>>
    ELSE IF a[Len(a)] = 0 THEN NTrim(SubSeq(a, 1, Len(a) - 1))
    ELSE a

RECURSIVE NFromInt(_)
NFromInt(k) ==
    IF k = 0 THEN <<>> ELSE <<k % Base>> \o NFromInt(k \div Base)

RECURSIVE NAddC(_, _, _)
NAddC(a, b, c) ==
    IF a = <<>> /\ b = <<>> THEN (IF c = 0 THEN <<>> ELSE <<c>>)
    ELSE LET x == IF a = <<>> THEN 0 ELSE Head(a)
             y == IF b = <<>> THEN 0 ELSE Head(b)
             s == x + y + c
         IN  <<s % Base>> \o NAddC(IF a = <<>> THEN <<>> ELSE Tail(a),
                                   IF b = <<>> THEN <<>> ELSE Tail(b),
                                   s \div Base)

NAdd(a, b) == NAddC(a, b, 0)

\* -1, 0 or 1 as a < b, a = b, a > b (both without leading zero limbs)
RECURSIVE NCmpTop(_, _, _)
NCmpTop(a, b, i) ==
    IF i = 0 THEN 0
    ELSE IF a[i] < b[i] THEN -1
    ELSE IF a[i] > b[i] THEN 1
    ELSE NCmpTop(a, b, i - 1)

NCmp(a, b) ==
    IF Len(a) < Len(b) THEN -1
    ELSE IF Len(a) > Len(b) THEN 1
    ELSE NCmpTop(a, b, Len(a))

\* a - b for a >= b
RECURSIVE NSubB(_, _, _)
NSubB(a, b, br) ==
    IF a = <<>> THEN <<>>
    ELSE LET y == IF b = <<>> THEN 0 ELSE Head(b)
             s == Head(a) - y - br
         IN  <<IF s < 0 THEN s + Base ELSE s>>
                \o NSubB(Tail(a), IF b = <<>> THEN <<>> ELSE Tail(b),
                         IF s < 0 THEN 1 ELSE 0)

NSub(a, b) == NTrim(NSubB(a, b, 0))

\* a * k + c for 0 <= k < Base
RECURSIVE NMulSmallC(_, _, _)
NMulSmallC(a, k, c) ==
    IF a = <<>> THEN (IF c = 0 THEN <<>> ELSE <<c>>)
    ELSE LET p == Head(a) * k + c
         IN  <<p % Base>> \o NMulSmallC(Tail(a), k, p \div Base)

NMulSmall(a, k) == IF k = 0 THEN <<>> ELSE NMulSmallC(a, k, 0)

RECURSIVE NMul(_, _)
NMul(a, b) ==
    IF a = <<>> \/ b = <<>> THEN <<>>
    ELSE LET hi == NMul(a, Tail(b))
         IN  NAdd(NMulSmall(a, Head(b)),
                  IF hi = <<>> THEN <<>> ELSE <<0>> \o hi)

\* the largest k in lo .. hi with k * b <= cur (lo * b <= cur is given)
RECURSIVE NDigit(_, _, _, _)
NDigit(cur, b, lo, hi) ==
    IF lo = hi THEN lo
    ELSE LET mid == (lo + hi + 1) \div 2
         IN  IF NCmp(NMulSmall(b, mid), cur) <= 0
             THEN NDigit(cur, b, mid, hi)
             ELSE NDigit(cur, b, lo, mid - 1)

\* quotient and remainder of a by b, b > 0
RECURSIVE NDivMod(_, _)
NDivMod(a, b) ==
    IF a = <<>> THEN [q |-> <<>>, r |-> <<>>]
    ELSE LET up  == NDivMod(Tail(a), b)
             cur == NTrim(<<Head(a)>> \o up.r)
             k   == NDigit(cur, b, 0, Base - 1)
         IN  [q |-> NTrim(<<k>> \o up.q), r |-> NSub(cur, NMulSmall(b, k))]

(* ---------------- floats as exact rationals ---------------------------- *)

\* neg: the sign; n / d: the magnitude, d > 0; zero is never negative
Q(k, den) ==
    [neg |-> k < 0, n |-> NFromInt(IF k < 0 THEN -k ELSE k), d |-> NFromInt(den)]

QZero == Q(0, 1)
QOne  == Q(1, 1)

QIsZero(x) == x.n = <<>>

QNeg(x) == IF QIsZero(x) THEN x ELSE [x EXCEPT !.neg = ~x.neg]

QAdd(x, y) ==
    LET a == NMul(x.n, y.d)
        b == NMul(y.n, x.d)
        d == NMul(x.d, y.d)
    IN  IF x.neg = y.neg THEN [neg |-> x.neg, n |-> NAdd(a, b), d |-> d]
        ELSE IF NCmp(a, b) = 0 THEN [neg |-> FALSE, n |-> <<>>, d |-> d]
        ELSE IF NCmp(a, b) > 0 THEN [neg |-> x.neg, n |-> NSub(a, b), d |-> d]
        ELSE [neg |-> y.neg, n |-> NSub(b, a), d |-> d]

QSub(x, y) == QAdd(x, QNeg(y))

QMul(x, y) ==
    LET n == NMul(x.n, y.n)
    IN  [neg |-> n # <<>> /\ x.neg # y.neg, n |-> n, d |-> NMul(x.d, y.d)]

\* x / y for y # 0
QDiv(x, y) ==
    LET n == NMul(x.n, y.d)
    IN  [neg |-> n # <<>> /\ x.neg # y.neg, n |-> n, d |-> NMul(x.d, y.n)]

QEq(x, y) == x.neg = y.neg /\ NMul(x.n, y.d) = NMul(y.n, x.d)

RECURSIVE QPow(_, _)
QPow(x, i) == IF i = 0 THEN QOne ELSE QMul(x, QPow(x, i - 1))

\* round(x, ndigits): to the nearest multiple of 10^-ndigits, a tie going to the
\* even one (Python's round; on the exact value, where the float's binary
\* representation error would decide a decimal tie one way or the other)
QRound(x, ndigits) ==
    LET dm    == NDivMod(NMul(x.n, NFromInt(10^ndigits)), x.d)
        cmp   == NCmp(NMulSmall(dm.r, 2), x.d)
        odd   == dm.q # <<>> /\ Head(dm.q) % 2 = 1
        q     == IF cmp > 0 \/ (cmp = 0 /\ odd) THEN NAdd(dm.q, <<1>>) ELSE dm.q
    IN  [neg |-> x.neg /\ q # <<>>, n |-> q, d |-> NFromInt(10^ndigits)]

(* ---------------- Python values (decoded JSON) ------------------------- *)

\* Every value is a record [t, v]: t the Python type, v the payload.  A str is
\* a sequence of one-character strings, a dict a function from keys to values.
None       == [t |-> "None",  v |-> <<>>]
PyFloat(q) == [t |-> "float", v |-> q]
PyStr(s)   == [t |-> "str",   v |-> s]
PyList(l)  == [t |-> "list",  v |-> l]
PyDict(f)  == [t |-> "dict",  v |-> f]
EmptyDict  == PyDict(<<>>)

\* the outcome of a call: a returned value or a raised exception
Return(x) == [kind |-> "return", exc |-> "", value |-> x]
Raise(e)  == [kind |-> "raise",  exc |-> e,  value |-> None]

\* bool(x)
Truthy(x) ==
    CASE x.t = "None"  -> FALSE
      [] x.t = "float" -> ~QIsZero(x.v)
      [] x.t = "dict"  -> DOMAIN x.v # {}
      [] OTHER         -> x.v # <<>>

\* d.get(key, default) of a dict d
Get(d, key, default) == IF key \in DOMAIN d.v THEN d.v[key] ELSE default

DigitChars == <<"0", "1", "2", "3", "4", "5", "6", "7", "8", "9">>
IsDigit(c) == \E i \in 1..10 : DigitChars[i] = c
DigitVal(c) == (CHOOSE i \in 1..10 : DigitChars[i] = c) - 1

RECURSIVE NFromDigits(_)
NFromDigits(s) ==
    IF s = <<>> THEN <<>>
    ELSE NAdd(NMulSmall(NFromDigits(SubSeq(s, 1, Len(s) - 1)), 10),
              NFromInt(DigitVal(s[Len(s)])))

RECURSIVE NPow10(_)
NPow10(k) == IF k = 0 THEN <<1>> ELSE NMulSmall(NPow10(k - 1), 10)

\* float(s) of a str: [sign] digits [. digits], at least one digit; anything
\* else is a ValueError.  (Exponents, "inf" and "nan" occur in no response below.)
ParseFloat(s) ==
    LET signed == s # <<>> /\ s[1] \in {"-", "+"}
        body   == IF signed THEN Tail(s) ELSE s
        dots   == {i \in 1..Len(body) : body[i] = "."}
        dot    == IF dots = {} THEN Len(body) + 1
                  ELSE CHOOSE i \in dots : \A j \in dots : i <= j
        int    == SubSeq(body, 1, dot - 1)
        frac   == SubSeq(body, dot + 1, Len(body))
        digits == int \o frac
        n      == NFromDigits(digits)
    IN  IF digits # <<>> /\ \A i \in 1..Len(digits) : IsDigit(digits[i])
        THEN Return(PyFloat([neg |-> signed /\ s[1] = "-" /\ n # <<>>,
                             n |-> n, d |-> NPow10(Len(frac))]))
        ELSE Raise("ValueError")

\* float(x)
Float(x) ==
    CASE x.t = "float" -> Return(x)
      [] x.t = "str"   -> ParseFloat(x.v)
      [] OTHER         -> Raise("TypeError")

(* ---------------- the fetchers ----------------------------------------- *)

\* lines 18-25: one turn of the loop; the free cash flow of an item, 0.0 on a
\* ValueError, any other exception leaving the loop
ItemFreeCashFlow(item) ==
    IF item.t # "dict" THEN Raise("AttributeError")
    ELSE LET operating_cash_flow == Float(Get(item, "Operating Cash Flow", PyFloat(QZero)))
             capex == Float(Get(item, "Capital Expenditure", PyFloat(QZero)))
         IN  IF operating_cash_flow.kind = "raise"
             THEN (IF operating_cash_flow.exc = "ValueError"
                   THEN Return(QZero) ELSE operating_cash_flow)
             ELSE IF capex.kind = "raise"
             THEN (IF capex.exc = "ValueError" THEN Return(QZero) ELSE capex)
             ELSE Return(QSub(operating_cash_flow.value.v, capex.value.v))

RECURSIVE FreeCashFlowLoop(_, _)
FreeCashFlowLoop(statements, free_cash_flows) ==
    IF statements = <<>> THEN Return(free_cash_flows)
    ELSE LET fcf == ItemFreeCashFlow(Head(statements))
         IN  IF fcf.kind = "raise" THEN fcf
             ELSE FreeCashFlowLoop(Tail(statements), Append(free_cash_flows, fcf.value))

\* data is response.json(); the result is a list of floats, a sequence of rationals
fetch_actual_free_cash_flows(data) ==
    IF data.t # "dict" THEN Raise("AttributeError")
    ELSE LET statements == Get(data, "financials", PyList(<<>>))
         IN  IF statements.t # "list" THEN Raise("TypeError")
             ELSE FreeCashFlowLoop(statements.v, <<>>)

fetch_outstanding_shares(data) ==
    IF Truthy(data) /\ data.t = "list"
    THEN IF data.v[1].t # "dict" THEN Raise("AttributeError")
         ELSE LET market_cap == Float(Get(data.v[1], "mktCap", PyFloat(QZero)))
                  price      == Float(Get(data.v[1], "price", PyFloat(QOne)))
              IN  IF market_cap.kind = "raise"
                  THEN (IF market_cap.exc = "ValueError" THEN Return(None) ELSE market_cap)
                  ELSE IF price.kind = "raise"
                  THEN (IF price.exc = "ValueError" THEN Return(None) ELSE price)
                  ELSE IF QIsZero(price.value.v) THEN Return(None)
                  ELSE Return(PyFloat(QDiv(market_cap.value.v, price.value.v)))
    ELSE Return(None)

\* line 55: {"date": item["date"], "close": item["close"]}
PricePoint(item) ==
    IF item.t # "dict" THEN Raise("TypeError")
    ELSE IF "date" \notin DOMAIN item.v \/ "close" \notin DOMAIN item.v
    THEN Raise("KeyError")
    ELSE Return(PyDict([k \in {"date", "close"} |-> item.v[k]]))

RECURSIVE PricePoints(_, _)
PricePoints(historical, prices) ==
    IF historical = <<>> THEN Return(PyList(prices))
    ELSE LET p == PricePoint(Head(historical))
         IN  IF p.kind = "raise" THEN p
             ELSE PricePoints(Tail(historical), Append(prices, p.value))

fetch_historic_share_prices(data) ==
    IF data.t \notin {"dict", "list"} THEN Raise("TypeError")
    ELSE IF data.t = "dict" /\ "historical" \in DOMAIN data.v
    THEN IF data.v["historical"].t # "list" THEN Raise("TypeError")
         ELSE PricePoints(data.v["historical"].v, <<>>)
    ELSE Return(None)

(* ---------------- forecast and valuation ------------------------------- *)

growth_rate == Q(5, 100)
Years       == 5
Decimals    == 2

RECURSIVE CompoundRoundingEachYear(_, _)
CompoundRoundingEachYear(last_cash_flow, years) ==
    IF years = 0 THEN <<>>
    ELSE LET next_cash_flow ==
                 QRound(QMul(last_cash_flow, QAdd(QOne, growth_rate)), Decimals)
         IN  <<next_cash_flow>> \o CompoundRoundingEachYear(next_cash_flow, years - 1)

\* lines 78-81: the compounding loop
RECURSIVE Compound(_, _)
Compound(last_cash_flow, years) ==
    IF years = 0 THEN <<>>
    ELSE LET next_cash_flow == QMul(last_cash_flow, QAdd(QOne, growth_rate))
         IN  <<next_cash_flow>> \o Compound(next_cash_flow, years - 1)

\* historical_cash_flows: a sequence of rationals (growth_forecast is not read)
predict_future_cash_flows(historical_cash_flows) ==
    IF historical_cash_flows = <<>> THEN Raise("IndexError")
    ELSE LET future_cash_flows ==
                 Compound(historical_cash_flows[Len(historical_cash_flows)], Years)
         IN  Return([i \in 1..Len(future_cash_flows) |->
                        QRound(future_cash_flows[i], Decimals)])

FirstPeriodZero == 1 - 1

\* line 88: the index of the first period
FirstPeriod == 1

\* line 88: sum(fcf / (1 + discount_rate)**i for i, fcf in enumerate(.., 1))
RECURSIVE DiscountedSum(_, _, _)
DiscountedSum(free_cash_flows, discount_rate, i) ==
    IF free_cash_flows = <<>> THEN QZero
    ELSE QAdd(QDiv(Head(free_cash_flows), QPow(QAdd(QOne, discount_rate), i)),
              DiscountedSum(Tail(free_cash_flows), discount_rate, i + 1))

dcf_analysis(free_cash_flows, discount_rate, terminal_growth_rate) ==
    IF free_cash_flows # <<>> /\ QIsZero(QAdd(QOne, discount_rate))
    THEN Raise("ZeroDivisionError")
    ELSE IF free_cash_flows = <<>> THEN Raise("IndexError")
    ELSE IF QIsZero(QSub(discount_rate, terminal_growth_rate))
    THEN Raise("ZeroDivisionError")
    ELSE LET N == Len(free_cash_flows)
             discounted_cash_flows ==
                 DiscountedSum(free_cash_flows, discount_rate, FirstPeriod)
             terminal_value ==
                 QDiv(QMul(free_cash_flows[N], QAdd(QOne, terminal_growth_rate)),
                      QSub(discount_rate, terminal_growth_rate))
             discounted_terminal_value ==
                 QDiv(terminal_value, QPow(QAdd(QOne, discount_rate), N))
         IN  Return(QAdd(discounted_cash_flows, discounted_terminal_value))

(* ---------------- the inputs ------------------------------------------- *)

MaxStatements == 2
MaxCandles    == 2
MaxHistory    == 2
MaxForecast   == 3
MaxAmount     == 4
MaxFlow       == 1

Chars(a, b, c) == <<a, b, c>>

\* Absent stands for a missing key of a dict
Absent == [t |-> "absent", v |-> <<>>]

\* the dict with the given fields, the Absent ones left out
Dict(fields) ==
    PyDict([k \in {k \in DOMAIN fields : fields[k] # Absent} |-> fields[k]])

RECURSIVE SeqsUpTo(_, _)
SeqsUpTo(S, n) ==
    IF n = 0 THEN {<<>>}
    ELSE LET shorter == SeqsUpTo(S, n - 1)
         IN  shorter \cup {Append(q, x) : q \in {r \in shorter : Len(r) = n - 1}, x \in S}

NotANumber == PyStr(Chars("N", "/", "A"))

\* what a field of a cash-flow statement may hold: nothing, null, a number,
\* a numeric string, a non-numeric string
StatementValues == {Absent, None, PyFloat(Q(3, 1)), PyStr(<<"3">>), NotANumber}

Statements ==
    {Dict(("Operating Cash Flow" :> o) @@ ("Capital Expenditure" :> c)) :
        o \in StatementValues, c \in StatementValues}

\* decoded bodies of the cash-flow-statement endpoint
CashFlowResponses ==
    {EmptyDict, PyDict("Error Message" :> PyStr(Chars("k", "e", "y")))}
    \cup {PyDict("financials" :> PyList(l)) : l \in SeqsUpTo(Statements, MaxStatements)}

Profiles ==
    {Dict(("mktCap" :> m) @@ ("price" :> p)) :
        m \in {Absent, None, PyStr(Chars("1", ".", "5")), NotANumber},
        p \in {Absent, None, PyFloat(QZero), PyFloat(Q(3, 1)), NotANumber}}

\* decoded bodies of the profile endpoint
ProfileResponses ==
    {None, EmptyDict, PyList(<<>>),
     PyDict("Error Message" :> PyStr(Chars("k", "e", "y")))}
    \cup {PyList(<<p>>) : p \in Profiles}

Day1 == PyStr(Chars("d", "0", "1"))
Day2 == PyStr(Chars("d", "0", "2"))

Candle(date, close) ==
    Dict(("date" :> date) @@ ("close" :> close) @@ ("volume" :> PyFloat(Q(7, 1))))

Candles ==
    {Candle(Day1, PyFloat(Q(3, 1))), Candle(Day2, None), Candle(Day1, Absent)}

\* decoded bodies of the historical-price-full endpoint
PriceResponses ==
    {EmptyDict, PyDict("symbol" :> PyStr(Chars("A", "B", "C")))}
    \cup {PyDict("historical" :> PyList(l)) : l \in SeqsUpTo(Candles, MaxCandles)}

\* cash flows handed to the forecast, and to the valuation
Amounts == {Q(k, 2) : k \in (0 - MaxAmount)..MaxAmount}
Flows   == {Q(k, 2) : k \in (0 - MaxFlow)..MaxFlow}
Rates   == {Q(-1, 1), QZero, Q(4, 100), Q(7, 100), Q(1, 2)}

(* ---------------- the Analyze run of main() ---------------------------- *)

VARIABLES
    pc,                     \* where the run of main() stands
    api_key,                \* the sidebar's text input
    data,                   \* response.json() of the latest request
    calls,                  \* the fetchers invoked so far, in order
    historical_cash_flows, outstanding_shares, historic_prices,
    future_cash_flows, discount_rate, terminal_growth_rate,
    valuation, share_price,
    shown,                  \* what the page shows below the title, in order
    exception,              \* the exception that ended the run, "" if none
    call                    \* a single call of one function, outside main()

vars == <<pc, api_key, data, calls, historical_cash_flows, outstanding_shares,
          historic_prices, future_cash_flows, discount_rate, terminal_growth_rate,
          valuation, share_price, shown, exception, call>>

\* a local of main() that no assignment has reached
Unbound == [t |-> "unbound", v |-> <<>>]
NoCall  == [fn |-> "", args |-> <<>>, out |-> [kind |-> "none", exc |-> "", value |-> None]]

MsgApiKey     == "Please enter a valid API key."
MsgCashFlows  == "Error: Unable to fetch valid Free Cash Flow data. Check the ticker or API response."
MsgShares     == "Error: Unable to fetch valid outstanding shares data."
MsgPrices     == "Error: Unable to fetch historical share price data."

Error(text)        == [widget |-> "error", label |-> text, value |-> None]
Write(text, value) == [widget |-> "write", label |-> text, value |-> value]

Locals ==
    /\ data = Unbound
    /\ calls = <<>>
    /\ historical_cash_flows = Unbound
    /\ outstanding_shares = Unbound
    /\ historic_prices = Unbound
    /\ future_cash_flows = Unbound
    /\ discount_rate = Unbound
    /\ terminal_growth_rate = Unbound
    /\ valuation = Unbound
    /\ share_price = Unbound
    /\ shown = <<>>
    /\ exception = ""

\* lines 100-105: the page is drawn and the sidebar holds the user's input
Init ==
    /\ pc = "button"
    /\ api_key \in {<<>>, Chars("k", "e", "y")}
    /\ Locals
    /\ call = NoCall

\* an uncaught exception ends the run
Crash(e) ==
    /\ pc' = "crashed"
    /\ exception' = e

AnalyzeWithoutKeyCheck ==
    /\ pc = "button"
    /\ shown' = Append(shown, Write("Fetching financial data...", None))
    /\ pc' = "fetch_cash_flows"
    /\ UNCHANGED <<api_key, data, calls, historical_cash_flows, outstanding_shares,
                   historic_prices, future_cash_flows, discount_rate,
                   terminal_growth_rate, valuation, share_price, exception, call>>

\* lines 107-114: the click, and the API-key check
Analyze ==
    /\ pc = "button"
    /\ IF api_key = <<>>
       THEN /\ shown' = Append(shown, Error(MsgApiKey))
            /\ pc' = "halted"
       ELSE /\ shown' = Append(shown, Write("Fetching financial data...", None))
            /\ pc' = "fetch_cash_flows"
    /\ UNCHANGED <<api_key, data, calls, historical_cash_flows, outstanding_shares,
                   historic_prices, future_cash_flows, discount_rate,
                   terminal_growth_rate, valuation, share_price, exception, call>>

\* line 115
FetchCashFlows ==
    /\ pc = "fetch_cash_flows"
    /\ \E d \in CashFlowResponses :
          LET out == fetch_actual_free_cash_flows(d)
          IN  /\ data' = d
              /\ IF out.kind = "raise"
                 THEN Crash(out.exc) /\ UNCHANGED historical_cash_flows
                 ELSE /\ historical_cash_flows' = out.value
                      /\ pc' = "fetch_shares"
                      /\ UNCHANGED exception
    /\ calls' = Append(calls, "fetch_actual_free_cash_flows")
    /\ UNCHANGED <<api_key, outstanding_shares, historic_prices, future_cash_flows,
                   discount_rate, terminal_growth_rate, valuation, share_price,
                   shown, call>>

\* line 116
FetchShares ==
    /\ pc = "fetch_shares"
    /\ \E d \in ProfileResponses :
          LET out == fetch_outstanding_shares(d)
          IN  /\ data' = d
              /\ IF out.kind = "raise"
                 THEN Crash(out.exc) /\ UNCHANGED outstanding_shares
                 ELSE /\ outstanding_shares' = out.value
                      /\ pc' = "fetch_prices"
                      /\ UNCHANGED exception
    /\ calls' = Append(calls, "fetch_outstanding_shares")
    /\ UNCHANGED <<api_key, historical_cash_flows, historic_prices, future_cash_flows,
                   discount_rate, terminal_growth_rate, valuation, share_price,
                   shown, call>>

\* line 117
FetchPrices ==
    /\ pc = "fetch_prices"
    /\ \E d \in PriceResponses :
          LET out == fetch_historic_share_prices(d)
          IN  /\ data' = d
              /\ IF out.kind = "raise"
                 THEN Crash(out.exc) /\ UNCHANGED historic_prices
                 ELSE /\ historic_prices' = out.value
                      /\ pc' = "validate_cash_flows"
                      /\ UNCHANGED exception
    /\ calls' = Append(calls, "fetch_historic_share_prices")
    /\ UNCHANGED <<api_key, historical_cash_flows, outstanding_shares, future_cash_flows,
                   discount_rate, terminal_growth_rate, valuation, share_price,
                   shown, call>>

NoValidCashFlowsEmptyOnly(cash_flows) == cash_flows = <<>>

\* line 120: not historical_cash_flows or all(cf == 0 for cf in historical_cash_flows)
NoValidCashFlows(cash_flows) ==
    cash_flows = <<>> \/ \A i \in 1..Len(cash_flows) : QIsZero(cash_flows[i])

\* line 123: not outstanding_shares
SharesMissingNoneOnly(shares) == shares = None
SharesMissing(shares) == ~Truthy(shares)

\* line 126: not historic_prices
PricesMissing(prices) == ~Truthy(prices)

\* lines 120-122
ValidateCashFlows ==
    /\ pc = "validate_cash_flows"
    /\ IF NoValidCashFlows(historical_cash_flows)
       THEN /\ shown' = Append(shown, Error(MsgCashFlows))
            /\ pc' = "halted"
       ELSE /\ pc' = "validate_shares"
            /\ UNCHANGED shown
    /\ UNCHANGED <<api_key, data, calls, historical_cash_flows, outstanding_shares,
                   historic_prices, future_cash_flows, discount_rate,
                   terminal_growth_rate, valuation, share_price, exception, call>>

\* lines 123-125
ValidateShares ==
    /\ pc = "validate_shares"
    /\ IF SharesMissing(outstanding_shares)
       THEN /\ shown' = Append(shown, Error(MsgShares))
            /\ pc' = "halted"
       ELSE /\ pc' = "validate_prices"
            /\ UNCHANGED shown
    /\ UNCHANGED <<api_key, data, calls, historical_cash_flows, outstanding_shares,
                   historic_prices, future_cash_flows, discount_rate,
                   terminal_growth_rate, valuation, share_price, exception, call>>

\* lines 126-131
ValidatePrices ==
    /\ pc = "validate_prices"
    /\ IF PricesMissing(historic_prices)
       THEN /\ shown' = Append(shown, Error(MsgPrices))
            /\ pc' = "halted"
       ELSE /\ shown' = shown \o
                 <<Write("Free Cash Flows (last 5 years): ", historical_cash_flows),
                   Write("Outstanding Shares: ", outstanding_shares)>>
            /\ pc' = "predict"
    /\ UNCHANGED <<api_key, data, calls, historical_cash_flows, outstanding_shares,
                   historic_prices, future_cash_flows, discount_rate,
                   terminal_growth_rate, valuation, share_price, exception, call>>

\* lines 134-136
Predict ==
    /\ pc = "predict"
    /\ LET out == predict_future_cash_flows(historical_cash_flows)
       IN  IF out.kind = "raise"
           THEN Crash(out.exc) /\ UNCHANGED <<future_cash_flows, shown>>
           ELSE /\ future_cash_flows' = out.value
                /\ shown' = Append(shown,
                       Write("Predicted Future Cash Flows (5 years): ", out.value))
                /\ pc' = "valuation"
                /\ UNCHANGED exception
    /\ UNCHANGED <<api_key, data, calls, historical_cash_flows, outstanding_shares,
                   historic_prices, discount_rate, terminal_growth_rate, valuation,
                   share_price, call>>

\* lines 139-142
Valuation ==
    /\ pc = "valuation"
    /\ discount_rate' = Q(7, 100)
    /\ terminal_growth_rate' = Q(4, 100)
    /\ LET out == dcf_analysis(future_cash_flows, discount_rate', terminal_growth_rate')
       IN  IF out.kind = "raise"
           THEN Crash(out.exc) /\ UNCHANGED <<valuation, shown>>
           ELSE /\ valuation' = out.value
                /\ shown' = Append(shown,
                       Write("AI-Augmented Business Valuation (DCF Method): $", out.value))
                /\ pc' = "share_price"
                /\ UNCHANGED exception
    /\ UNCHANGED <<api_key, data, calls, historical_cash_flows, outstanding_shares,
                   historic_prices, future_cash_flows, share_price, call>>

\* lines 145-146
SharePrice ==
    /\ pc = "share_price"
    /\ IF outstanding_shares.t # "float" THEN Crash("TypeError") /\ UNCHANGED <<share_price, shown>>
       ELSE IF QIsZero(outstanding_shares.v)
       THEN Crash("ZeroDivisionError") /\ UNCHANGED <<share_price, shown>>
       ELSE /\ share_price' = QDiv(valuation, outstanding_shares.v)
            /\ shown' = Append(shown, Write("Estimated Share Price: $", share_price'))
            /\ pc' = "chart"
            /\ UNCHANGED exception
    /\ UNCHANGED <<api_key, data, calls, historical_cash_flows, outstanding_shares,
                   historic_prices, future_cash_flows, discount_rate,
                   terminal_growth_rate, valuation, call>>

\* lines 149-152
Chart ==
    /\ pc = "chart"
    /\ shown' = shown \o
          <<[widget |-> "subheader", label |-> "Historical Share Prices", value |-> None],
            [widget |-> "plotly_chart", label |-> "Historic Share Prices Over Time",
             value |-> historic_prices]>>
    /\ pc' = "done"
    /\ UNCHANGED <<api_key, data, calls, historical_cash_flows, outstanding_shares,
                   historic_prices, future_cash_flows, discount_rate,
                   terminal_growth_rate, valuation, share_price, exception, call>>

Next ==
    \/ Analyze
    \/ FetchCashFlows
    \/ FetchShares
    \/ FetchPrices
    \/ ValidateCashFlows
    \/ ValidateShares
    \/ ValidatePrices
    \/ Predict
    \/ Valuation
    \/ SharePrice
    \/ Chart

Spec == Init /\ [][Next]_vars

(* ---------------- one call of one function ----------------------------- *)

Pending == [kind |-> "pending", exc |-> "", value |-> None]

Calls ==
    {[fn |-> "fetch_actual_free_cash_flows", args |-> <<d>>, out |-> Pending] :
        d \in CashFlowResponses}
    \cup {[fn |-> "fetch_outstanding_shares", args |-> <<d>>, out |-> Pending] :
        d \in ProfileResponses}
    \cup {[fn |-> "fetch_historic_share_prices", args |-> <<d>>, out |-> Pending] :
        d \in PriceResponses}
    \cup {[fn |-> "predict_future_cash_flows", args |-> <<h>>, out |-> Pending] :
        h \in SeqsUpTo(Amounts, MaxHistory)}
    \cup {[fn |-> "dcf_analysis", args |-> <<f, r, g>>, out |-> Pending] :
        f \in SeqsUpTo(Flows, MaxForecast), r \in Rates, g \in Rates}

\* a function of the module is about to be called on arguments of its domain
InitCall ==
    /\ pc = "call"
    /\ api_key = <<>>
    /\ Locals
    /\ call \in Calls

Returns(fn, out) ==
    /\ pc = "call"
    /\ call.fn = fn
    /\ call' = [call EXCEPT !.out = out]
    /\ pc' = "returned"
    /\ UNCHANGED <<api_key, data, calls, historical_cash_flows, outstanding_shares,
                   historic_prices, future_cash_flows, discount_rate,
                   terminal_growth_rate, valuation, share_price, shown, exception>>

CallFetchCashFlows ==
    Returns("fetch_actual_free_cash_flows", fetch_actual_free_cash_flows(call.args[1]))

CallFetchShares ==
    Returns("fetch_outstanding_shares", fetch_outstanding_shares(call.args[1]))

CallFetchPrices ==
    Returns("fetch_historic_share_prices", fetch_historic_share_prices(call.args[1]))

CallPredict ==
    Returns("predict_future_cash_flows", predict_future_cash_flows(call.args[1]))

CallDcf ==
    Returns("dcf_analysis", dcf_analysis(call.args[1], call.args[2], call.args[3]))

NextCall ==
    \/ CallFetchCashFlows
    \/ CallFetchShares
    \/ CallFetchPrices
    \/ CallPredict
    \/ CallDcf

CallSpec == InitCall /\ [][NextCall]_vars

Returned(fn) == pc = "returned" /\ call.fn = fn

(* ---------------- properties of the single calls ----------------------- *)

IsNumeric(x) == x.t = "float" \/ (x.t = "str" /\ ParseFloat(x.v).kind = "return")
NumericValue(x) == IF x.t = "float" THEN x.v ELSE ParseFloat(x.v).value.v

\* (1 + r)^i
DiscountFactor(r, i) == QPow(QAdd(QOne, r), i)

\* the sum over i = 1..n of fcf[i] / (1 + r)^i
RECURSIVE SumOfPeriods(_, _, _)
SumOfPeriods(fcf, r, n) ==
    IF n = 0 THEN QZero
    ELSE QAdd(SumOfPeriods(fcf, r, n - 1), QDiv(fcf[n], DiscountFactor(r, n)))

\* (fcf[N] * (1 + g) / (r - g)) / (1 + r)^N
TerminalTerm(fcf, r, g) ==
    QDiv(QDiv(QMul(fcf[Len(fcf)], QAdd(QOne, g)), QSub(r, g)),
         DiscountFactor(r, Len(fcf)))

\* C3: for every non-empty forecast, dcf_analysis(forecast, r, g) with r = g ends
\* in a dedicated "undefined terminal value" error, not in a generic division
\* failure and not in a value.
C3_EqualRatesRejected ==
    Returned("dcf_analysis")
        => LET f == call.args[1]
               r == call.args[2]
               g == call.args[3]
           IN  (f # <<>> /\ QEq(r, g))
                   => /\ call.out.kind = "raise"
                      /\ call.out.exc = "UndefinedTerminalValueError"

\* C4, as claimed: for every non-empty history, predict_future_cash_flows returns
\* exactly 5 values, and each returned value is the previous returned value (the
\* seed, the last historical figure, for the first) times 1.05, rounded to 2
\* decimals.
C4_EachFromPreviousReturned ==
    Returned("predict_future_cash_flows")
        => LET h    == call.args[1]
               out  == call.out.value
               prev(i) == IF i = 1 THEN h[Len(h)] ELSE out[i - 1]
           IN  h # <<>>
                   => /\ call.out.kind = "return"
                      /\ Len(out) = 5
                      /\ \A i \in 1..5 :
                            QEq(out[i], QRound(QMul(prev(i), Q(105, 100)), 2))

\* C4, amended: for every non-empty history, predict_future_cash_flows returns
\* exactly 5 values that depend on the last historical figure only, and the k-th
\* value is that seed times 1.05^k, compounded without rounding in between and
\* rounded to 2 decimals once.
C4_CompoundedThenRounded ==
    Returned("predict_future_cash_flows")
        => LET h    == call.args[1]
               out  == call.out.value
           IN  h # <<>>
                   => /\ call.out.kind = "return"
                      /\ Len(out) = 5
                      /\ \A k \in 1..5 :
                            QEq(out[k],
                                QRound(QMul(h[Len(h)], QPow(Q(105, 100), k)), 2))

\* a forecast from a two-figure history whose first figure differs from the seed,
\* on a seed where rounding each step would give another fourth value
C4_Witness ==
    /\ Returned("predict_future_cash_flows")
    /\ Len(call.args[1]) = 2
    /\ QEq(call.args[1][2], Q(3, 2))
    /\ ~QEq(call.args[1][1], call.args[1][2])
    /\ call.out.kind = "return"
    /\ ~QEq(call.out.value[2], QRound(QMul(call.out.value[1], Q(105, 100)), 2))

\* C5: for every forecast of length N >= 1 and r # g, r # -1, dcf_analysis is
\* the sum over i = 1..N of fcf[i] / (1+r)^i plus
\* (fcf[N] * (1+g) / (r-g)) / (1+r)^N; for a single figure F it is
\* F/(1+r) + (F(1+g)/(r-g))/(1+r).
C5_DcfFormula ==
    Returned("dcf_analysis")
        => LET f == call.args[1]
               r == call.args[2]
               g == call.args[3]
           IN  (f # <<>> /\ ~QEq(r, g) /\ ~QEq(r, Q(-1, 1)))
                   => /\ call.out.kind = "return"
                      /\ QEq(call.out.value,
                             QAdd(SumOfPeriods(f, r, Len(f)), TerminalTerm(f, r, g)))
                      /\ Len(f) = 1
                            => QEq(call.out.value,
                                   QAdd(QDiv(f[1], QAdd(QOne, r)),
                                        QDiv(QDiv(QMul(f[1], QAdd(QOne, g)), QSub(r, g)),
                                             QAdd(QOne, r))))

\* a valuation of three non-zero figures at the rates of main()
C5_Witness ==
    /\ Returned("dcf_analysis")
    /\ Len(call.args[1]) = 3
    /\ \A i \in 1..3 : ~QIsZero(call.args[1][i])
    /\ call.args[2] = Q(7, 100)
    /\ call.args[3] = Q(4, 100)
    /\ call.out.kind = "return"
    /\ ~QIsZero(call.out.value)

\* what C6 says an entry yields: operating cash flow minus capital expenditure,
\* a missing field counting as zero, and 0.0 when either is not numeric
ClaimedFreeCashFlow(item) ==
    LET o == Get(item, "Operating Cash Flow", PyFloat(QZero))
        c == Get(item, "Capital Expenditure", PyFloat(QZero))
    IN  IF IsNumeric(o) /\ IsNumeric(c)
        THEN QSub(NumericValue(o), NumericValue(c))
        ELSE QZero

\* C6: fetch_actual_free_cash_flows never aborts: a response with k statements
\* yields k values in order, each the entry's operating cash flow minus capital
\* expenditure, or 0.0 when either is non-numeric (a string that is no number, a
\* null); a response with no statement data yields the empty sequence.
C6_FetchNeverAborts ==
    Returned("fetch_actual_free_cash_flows")
        => LET d == call.args[1]
               statements ==
                   IF "financials" \in DOMAIN d.v /\ d.v["financials"].t = "list"
                   THEN d.v["financials"].v ELSE <<>>
           IN  /\ call.out.kind = "return"
               /\ Len(call.out.value) = Len(statements)
               /\ \A i \in 1..Len(statements) :
                     QEq(call.out.value[i], ClaimedFreeCashFlow(statements[i]))

\* C7: fetch_outstanding_shares never raises; it returns None when the response
\* is empty or not a list, when mktCap or price is non-numeric and when price is
\* 0, and market_cap / price (price 1 when absent) in every other case.
C7_SharesNoneNeverRaises ==
    Returned("fetch_outstanding_shares")
        => LET d == call.args[1]
               listed == d.t = "list" /\ d.v # <<>>
               first  == IF listed THEN d.v[1] ELSE EmptyDict
               m == Get(first, "mktCap", PyFloat(QZero))
               p == Get(first, "price", PyFloat(QOne))
           IN  /\ call.out.kind = "return"
               /\ IF ~listed \/ ~IsNumeric(m) \/ ~IsNumeric(p)
                  THEN call.out.value = None
                  ELSE IF QIsZero(NumericValue(p))
                  THEN call.out.value = None
                  ELSE /\ call.out.value.t = "float"
                       /\ QEq(call.out.value.v, QDiv(NumericValue(m), NumericValue(p)))

\* C8: fetch_historic_share_prices returns None exactly when the response lacks
\* "historical"; when the field is present it returns one (date, close) pair per
\* entry, in the order of the response, the empty list for an empty history.
C8_PricesAbsentOrSequence ==
    Returned("fetch_historic_share_prices")
        => LET d == call.args[1]
               present == d.t = "dict" /\ "historical" \in DOMAIN d.v
               entries == IF present THEN d.v["historical"].v ELSE <<>>
           IN  /\ call.out.kind = "return"
               /\ (call.out.value = None) <=> ~present
               /\ present
                     => /\ call.out.value.t = "list"
                        /\ Len(call.out.value.v) = Len(entries)
                        /\ \A i \in 1..Len(entries) :
                              /\ DOMAIN call.out.value.v[i].v = {"date", "close"}
                              /\ call.out.value.v[i].v["date"] = entries[i].v["date"]
                              /\ call.out.value.v[i].v["close"] = entries[i].v["close"]

(* ---------------- properties of the Analyze run ------------------------ *)

IsError(w) == w.widget = "error"
Errors == SelectSeq(shown, IsError)

FetchOrder ==
    <<"fetch_actual_free_cash_flows", "fetch_outstanding_shares",
      "fetch_historic_share_prices">>

EmptyOrAllZero(h) == h = <<>> \/ \A i \in 1..Len(h) : QEq(h[i], QZero)
AbsentOrZero(x)   == x = None \/ (x.t = "float" /\ QEq(x.v, QZero))
AbsentOrEmpty(x)  == x = None \/ (x.t = "list" /\ Len(x.v) = 0)

PastValidation == pc \in {"predict", "valuation", "share_price", "chart", "done"}

\* C1: the missing API key, the empty or all-zero cash flows, the absent share
\* count and the absent price history are each reported with a message of their
\* own, and the run halts there: nothing follows the message, and no forecast,
\* valuation, share price or chart exists in that run.  A run that got past the
\* validation met none of the four conditions.
C1_ErrorsDistinctAndHalt ==
    /\ Cardinality({MsgApiKey, MsgCashFlows, MsgShares, MsgPrices}) = 4
    /\ pc = "halted" <=> Errors # <<>>
    /\ Errors # <<>>
          => /\ ~ENABLED Next
             /\ Errors = <<shown[Len(shown)]>>
             /\ future_cash_flows = Unbound
             /\ valuation = Unbound
             /\ share_price = Unbound
             /\ \A i \in 1..Len(shown) : shown[i].widget # "plotly_chart"
             /\ Errors[1].label \in {MsgApiKey, MsgCashFlows, MsgShares, MsgPrices}
             /\ Errors[1].label = MsgApiKey <=> api_key = <<>>
             /\ Errors[1].label = MsgCashFlows => EmptyOrAllZero(historical_cash_flows)
             /\ Errors[1].label = MsgShares => AbsentOrZero(outstanding_shares)
             /\ Errors[1].label = MsgPrices => AbsentOrEmpty(historic_prices)
    /\ PastValidation
          => /\ api_key # <<>>
             /\ ~EmptyOrAllZero(historical_cash_flows)
             /\ ~AbsentOrZero(outstanding_shares)
             /\ ~AbsentOrEmpty(historic_prices)

\* a run halted by the price-history message after valid cash flows and shares
C1_Witness ==
    /\ pc = "halted"
    /\ Errors = <<Error(MsgPrices)>>
    /\ historic_prices = None
    /\ ~EmptyOrAllZero(historical_cash_flows)

\* C2: dcf_analysis and the division by outstanding_shares are executed only with
\* outstanding_shares present and non-zero, at least one historical cash flow,
\* and a discount rate that differs from the terminal growth rate; no run ends
\* in a division by zero or an index error.
C2_ValuationDefined ==
    /\ pc \in {"predict", "valuation", "share_price", "chart", "done"}
          => /\ outstanding_shares.t = "float"
             /\ ~QEq(outstanding_shares.v, QZero)
             /\ Len(historical_cash_flows) >= 1
    /\ discount_rate # Unbound => ~QEq(discount_rate, terminal_growth_rate)
    /\ valuation # Unbound => future_cash_flows # Unbound
    /\ exception \notin {"ZeroDivisionError", "IndexError"}

\* a run that computed the valuation and the share price
C2_Witness ==
    /\ pc = "done"
    /\ valuation # Unbound
    /\ share_price # Unbound
    /\ QEq(share_price, QDiv(valuation, outstanding_shares.v))

\* C9: whatever the three responses hold, a run ends with one of the error
\* messages or with the complete outputs, never with an uncaught exception other
\* than the division by zero of the unguarded valuation.
C9_NeverCrashes ==
    pc = "crashed" => exception = "ZeroDivisionError"

\* C10: no fetcher is invoked with an empty API key; with a key the fetchers are
\* invoked in the order cash flows, shares, price history, all three before any
\* validation; the validations run in that order and the run stops at the first
\* that fails, with exactly one error message; the forecast precedes the
\* valuation, which precedes the share price and the chart.
C10_Order ==
    /\ api_key = <<>> => calls = <<>>
    /\ calls = SubSeq(FetchOrder, 1, Len(calls))
    /\ pc \in {"validate_cash_flows", "validate_shares", "validate_prices"}
          \/ PastValidation \/ (pc = "halted" /\ api_key # <<>>)
          => calls = FetchOrder
    /\ pc = "halted" => Len(Errors) = 1
    /\ pc \in {"validate_shares", "validate_prices"} \/ PastValidation
          \/ (pc = "halted" /\ Errors[1].label \in {MsgShares, MsgPrices})
          => ~EmptyOrAllZero(historical_cash_flows)
    /\ pc = "validate_prices" \/ PastValidation
          \/ (pc = "halted" /\ Errors[1].label = MsgPrices)
          => ~AbsentOrZero(outstanding_shares)
    /\ valuation # Unbound => future_cash_flows # Unbound
    /\ share_price # Unbound => valuation # Unbound
    /\ (\E i \in 1..Len(shown) : shown[i].widget = "plotly_chart")
          => share_price # Unbound

\* a complete run: three fetches, then the outputs down to the chart
C10_Witness ==
    /\ pc = "done"
    /\ calls = FetchOrder
    /\ Errors = <<>>
    /\ shown[Len(shown)].widget = "plotly_chart"

====
